---- MODULE Spec2Model ----
(***************************************************************************)
(* handlebars-iron, src/middleware.rs: the Template marker attached to an   *)
(* iron Response, the HandlebarsEngine (a list of sources and a Handlebars  *)
(* registry behind an RwLock) with add()/reload(), and the AfterMiddleware  *)
(* that renders the marker into the response body.                          *)
(***************************************************************************)
EXTENDS Naturals, Sequences, FiniteSets, TLC

\* ------------------------------------------------------------ bounds
MaxProcs == 2
MaxSources == 2
MaxAttach == 2
MaxExtract == 2

Procs == 1..MaxProcs

\* ------------------------------------------------------------ values
Absent == "absent"

\* Values a handler hands to Template::new: a one-entry map or a plain string.
RawValues ==
  { [kind |-> "map", key |-> "title", val |-> "Hi"],
    [kind |-> "str", key |-> "", val |-> "Hi"] }

\* value.to_json(): a map becomes a Json::Object of Json::String, a string a
\* Json::String.
ToJson(raw) ==
  [tag |-> IF raw.kind = "map" THEN "Object" ELSE "String",
   key |-> raw.key,
   str |-> raw.val]

\* h.value.as_object().unwrap().get(key).unwrap().as_string()
AsObjectGetString(json, key) ==
  IF json.tag = "Object" /\ json.key = key THEN json.str ELSE Absent

MarkerNames == {"index", "about", "missing"}

NoMarker == [name |-> Absent, value |-> [tag |-> Absent, key |-> "", str |-> ""]]

Template_new(name, raw) == [name |-> name, value |-> ToJson(raw)]

Markers == { Template_new(n, v) : n \in MarkerNames, v \in RawValues }

\* ------------------------------------------------------------ responses
\* Response::new() and what handler code may have set on it before the
\* marker is attached: status, content-type, another header, body.
Response_new == [status |-> Absent, ctype |-> Absent, xhdr |-> Absent,
                 body |-> [kind |-> Absent, tpl |-> "", data |-> NoMarker.value],
                 ext |-> NoMarker]

RawBody == [kind |-> "raw", tpl |-> "", data |-> NoMarker.value]

HandlerResponses ==
  { Response_new,
    [Response_new EXCEPT !.status = "404", !.ctype = "json", !.xhdr = "x",
                         !.body = RawBody],
    [Response_new EXCEPT !.xhdr = "x", !.body = RawBody],
    [Response_new EXCEPT !.status = "404", !.ctype = "json"] }

\* resp.extensions.insert::<HandlebarsEngine>(self)
ModifyDropped(t, resp) == resp

ModifyKeepsFirst(t, resp) == IF resp.ext = NoMarker THEN [resp EXCEPT !.ext = t] ELSE resp

Modify(t, resp) == [resp EXCEPT !.ext = t]

\* resp.extensions.get::<HandlebarsEngine>() then clone; the response is
\* only read.
EvalRemoving(resp) ==
  [res  |-> IF resp.ext = NoMarker THEN [ok |-> FALSE, t |-> NoMarker]
                                   ELSE [ok |-> TRUE, t |-> resp.ext],
   resp |-> [resp EXCEPT !.ext = NoMarker]]

Eval(resp) ==
  [res  |-> IF resp.ext = NoMarker THEN [ok |-> FALSE, t |-> NoMarker]
                                   ELSE [ok |-> TRUE, t |-> resp.ext],
   resp |-> resp]

\* ------------------------------------------------------------ engine
\* A Handlebars registry: template name -> template text, Absent when no
\* template of that name is registered.
EmptyRegistry == [n \in MarkerNames |-> Absent]

Reg1(n, t) == [EmptyRegistry EXCEPT ![n] = t]

\* register_template per entry of tpls: a later registration of a name
\* replaces the earlier one.
Override(reg, tpls) ==
  [n \in MarkerNames |-> IF tpls[n] # Absent THEN tpls[n] ELSE reg[n]]

\* hbs.clear_templates()
ClearKeeps(reg) == reg

ClearTemplates(reg) == EmptyRegistry

\* hbs.render(&h.name, &h.value): Ok(text) or Err(RenderError).
RenderOk(tpl, value) == [ok |-> TRUE, text |-> [kind |-> "page", tpl |-> tpl, data |-> value],
                         err |-> Absent]
RenderErr(e) == [ok |-> FALSE, text |-> Response_new.body, err |-> e]

Render(reg, name, value) ==
  IF reg[name] = Absent THEN RenderErr("TemplateNotFound")
  ELSE IF reg[name] = "Tbad" THEN RenderErr("RenderFailed")
  ELSE RenderOk(reg[name], value)

\* Sources: what a load registers, and how the load ends.
SrcIndex == [tpls |-> Reg1("index", "T1"), outcome |-> "ok", err |-> Absent]
SrcSite  == [tpls |-> Override(Reg1("index", "T2"), Reg1("about", "T1")),
             outcome |-> "ok", err |-> Absent]
SrcErr1  == [tpls |-> EmptyRegistry, outcome |-> "err", err |-> "E1"]
SrcErr2  == [tpls |-> EmptyRegistry, outcome |-> "err", err |-> "E2"]

SourceKinds == {SrcIndex, SrcSite, SrcErr1, SrcErr2}

\* s.load(&mut hbs)
Load(s, reg) ==
  IF s.outcome = "ok" THEN [ok |-> TRUE, reg |-> Override(reg, s.tpls), err |-> Absent]
  ELSE [ok |-> FALSE, reg |-> reg, err |-> s.err]

\* Engines handed to from2(); new2() starts from Handlebars::new().
CustomEngines == { Reg1("index", "T0"), Override(Reg1("index", "T0"), Reg1("about", "Tbad")) }

\* ------------------------------------------------------------ state
VARIABLES
  sources,    \* HandlebarsEngine.sources
  registry,   \* the Handlebars behind HandlebarsEngine.registry
  writers,    \* threads holding the RwLock write guard
  readers,    \* threads holding an RwLock read guard
  pc,         \* where each thread is in reload() or after()
  invoked,    \* per thread in reload(): the source indices its loop has invoked
  rres,       \* per thread: the value reload() returns
  resp,       \* per thread in after(): the response r it was given
  out,        \* per thread: the IronResult after() returns
  last,       \* history: the registry and result the last finished reload (or the
              \* construction) left, and how many reloads finished since the last add
  hresp,      \* the response a handler is building
  hargs,      \* the (name, value) of the handler's last Template::new
  hext,       \* what the handler's last resp.get::<HandlebarsEngine>() returned
  hown,       \* TRUE while the handler still owns hresp (not yet returned it)
  nattach,    \* number of markers the handler has attached
  nextract,   \* number of extractions the handler has made
  poisoned,   \* TRUE once a thread panicked holding the RwLock write guard
  queue       \* with a first-come-first-served lock: the threads waiting, in order

engineVars == <<sources, registry, writers, readers, last>>
reloadVars == <<invoked, rres>>
afterVars == <<resp, out>>
handlerVars == <<hresp, hargs, hext, hown, nattach, nextract>>
lockVars == <<poisoned, queue>>
vars == <<sources, registry, writers, readers, pc, invoked, rres, resp, out, last,
          hresp, hargs, hext, hown, nattach, nextract, poisoned, queue>>

NoResult == [ok |-> TRUE, err |-> "none"]
ReloadOk == [ok |-> TRUE, err |-> Absent]
ReloadErr(e) == [ok |-> FALSE, err |-> e]

NoOut == [ok |-> TRUE, resp |-> Response_new, cause |-> "none"]
NoArgs == [name |-> Absent, raw |-> [kind |-> Absent, key |-> "", val |-> ""]]
NoExt == [ok |-> FALSE, t |-> NoMarker, at |-> 0]

\* The history kept in `last` when a reload() returns res, leaving reg.
Finished(l, reg, res) == [n |-> IF l.n < 2 THEN l.n + 1 ELSE l.n, reg |-> reg, res |-> res]

\* HandlebarsEngine::new2()
new2 == [sources |-> <<>>, registry |-> EmptyRegistry]

\* HandlebarsEngine::from2(reg)
from2(reg) == [sources |-> <<>>, registry |-> reg]

Init ==
  /\ \E e \in {new2} \cup { from2(c) : c \in CustomEngines } :
        /\ sources = e.sources
        /\ registry = e.registry
        /\ last = [n |-> 0, reg |-> e.registry, res |-> NoResult]
  /\ writers = {}
  /\ readers = {}
  /\ pc = [p \in Procs |-> "idle"]
  /\ invoked = [p \in Procs |-> <<>>]
  /\ rres = [p \in Procs |-> NoResult]
  /\ resp = [p \in Procs |-> Response_new]
  /\ out = [p \in Procs |-> NoOut]
  /\ hresp = Response_new
  /\ hargs = NoArgs
  /\ hext = NoExt
  /\ hown = FALSE
  /\ nattach = 0
  /\ nextract = 0
  /\ poisoned = FALSE
  /\ queue = <<>>

\* ------------------------------------------------------------ RwLock
\* registry.read(): granted while no write guard is held.
CanReadUnguarded(ws, rs) == TRUE

CanRead(ws, rs) == ws = {}

\* registry.write(): granted while no guard at all is held.
CanWriteShared(ws, rs) == TRUE

CanWrite(ws, rs) == ws = {} /\ rs = {}

\* .unwrap() on the LockResult: panics when the lock is poisoned.
UnwrapIgnoresPoison(poison) == FALSE

UnwrapPanics(poison) == poison

\* A guard going out of scope releases the lock.
DropGuardLeaks(holders, p) == holders

DropGuard(holders, p) == holders \ {p}

\* ------------------------------------------------------------ add, reload
\* add(&mut self, source): needs exclusive access to the engine, so no
\* thread is inside reload() or after().
add(s) ==
  /\ \A p \in Procs : pc[p] = "idle"
  /\ Len(sources) < MaxSources
  /\ sources' = Append(sources, s)
  /\ last' = [last EXCEPT !.n = 0]
  /\ UNCHANGED <<registry, writers, readers, pc, reloadVars, afterVars, handlerVars, lockVars>>

\* reload(&self) is called.
ReloadEnter(p) ==
  /\ pc[p] = "idle"
  /\ pc' = [pc EXCEPT ![p] = "r_wait"]
  /\ UNCHANGED <<engineVars, reloadVars, afterVars, handlerVars>>

ReloadCall(p) ==
  /\ ReloadEnter(p)
  /\ UNCHANGED lockVars

\* let mut hbs = self.registry.write().unwrap(); hbs.clear_templates();
ReloadAcquire(p) ==
  /\ pc[p] = "r_wait"
  /\ CanWrite(writers, readers)
  /\ ~UnwrapPanics(poisoned)
  /\ writers' = writers \cup {p}
  /\ registry' = ClearTemplates(registry)
  /\ invoked' = [invoked EXCEPT ![p] = <<>>]
  /\ pc' = [pc EXCEPT ![p] = "r_load"]
  /\ UNCHANGED <<sources, readers, last, rres, afterVars, handlerVars>>

ReloadLockClear(p) ==
  /\ ReloadAcquire(p)
  /\ UNCHANGED lockVars

\* s.load(&mut hbs) comes back, with Ok or Err.
LoadTimesOut(s) == s.outcome # "panic"

LoadReturns(s) == s.outcome \in {"ok", "err"}

\* self.sources.iter(): the index of the next source, 0 when exhausted.
IterReversed(srcs, done) ==
  IF Len(done) < Len(srcs) THEN Len(srcs) - Len(done) ELSE 0

IterNext(srcs, done) ==
  IF Len(done) < Len(srcs) THEN Len(done) + 1 ELSE 0

\* try!(...): TRUE when the loop body's result ends reload() early.
TryKeepsGoing(r) == FALSE

TryReturns(r) == ~r.ok

\* One turn of `for s in self.sources.iter() { try!(s.load(&mut hbs)) }`,
\* and the return (dropping the write guard) on an error.
ReloadLoad(p) ==
  /\ pc[p] = "r_load"
  /\ IterNext(sources, invoked[p]) # 0
  /\ LoadReturns(sources[IterNext(sources, invoked[p])])
  /\ LET i == IterNext(sources, invoked[p])
         r == Load(sources[i], registry)
     IN /\ registry' = r.reg
        /\ invoked' = [invoked EXCEPT ![p] = Append(@, i)]
        /\ IF TryReturns(r)
             THEN /\ rres' = [rres EXCEPT ![p] = ReloadErr(r.err)]
                  /\ writers' = DropGuard(writers, p)
                  /\ last' = Finished(last, r.reg, ReloadErr(r.err))
                  /\ pc' = [pc EXCEPT ![p] = "r_ret"]
             ELSE UNCHANGED <<rres, writers, last, pc>>
  /\ UNCHANGED <<sources, readers, afterVars, handlerVars, lockVars>>

\* Ok(()) after the loop, dropping the write guard.
ReloadOkReturn(p) ==
  /\ pc[p] = "r_load"
  /\ IterNext(sources, invoked[p]) = 0
  /\ rres' = [rres EXCEPT ![p] = ReloadOk]
  /\ writers' = DropGuard(writers, p)
  /\ last' = Finished(last, registry, ReloadOk)
  /\ pc' = [pc EXCEPT ![p] = "r_ret"]
  /\ UNCHANGED <<sources, registry, readers, invoked, afterVars, handlerVars, lockVars>>

\* The caller takes reload()'s result.
ReloadDone(p) ==
  /\ pc[p] = "r_ret"
  /\ pc' = [pc EXCEPT ![p] = "idle"]
  /\ rres' = [rres EXCEPT ![p] = NoResult]
  /\ invoked' = [invoked EXCEPT ![p] = <<>>]
  /\ UNCHANGED <<engineVars, afterVars, handlerVars, lockVars>>

\* ------------------------------------------------------------ after
\* What after() was given no marker for, or what the engine's render gave.
NoPage == [some |-> FALSE, page |-> RenderErr(Absent)]
SomePage(r) == [some |-> TRUE, page |-> r]

IronOk(r) == [ok |-> TRUE, resp |-> r, cause |-> Absent]

\* IronError::new(e, status::InternalServerError)
IronError_new(e, st) ==
  [ok |-> FALSE, resp |-> [Response_new EXCEPT !.status = st], cause |-> e]

\* if !resp.headers.has::<ContentType>() { resp.headers.set(ContentType::html()) }
SetHtmlAlways(r) == [r EXCEPT !.ctype = "html"]

SetHtmlIfUnset(r) == IF r.ctype = Absent THEN [r EXCEPT !.ctype = "html"] ELSE r

\* resp.set_mut(page)
set_mut(r, page) == [r EXCEPT !.body = page]

\* match page_wrapper { ... }
MatchSwallowsError(r, pw) ==
  IF pw.some /\ pw.page.ok THEN IronOk(set_mut(SetHtmlIfUnset(r), pw.page.text))
  ELSE IronOk(r)

MatchTouchesUnmarked(r, pw) ==
  IF ~pw.some THEN IronOk(SetHtmlIfUnset(r))
  ELSE IF pw.page.ok THEN IronOk(set_mut(SetHtmlIfUnset(r), pw.page.text))
  ELSE IronError_new(pw.page.err, "500")

Match(r, pw) ==
  IF ~pw.some THEN IronOk(r)
  ELSE IF pw.page.ok THEN IronOk(set_mut(SetHtmlIfUnset(r), pw.page.text))
  ELSE IronError_new(pw.page.err, "500")

AndThenAlways(ext) == TRUE

\* Option::and_then runs its closure on a Some only.
AndThenRuns(ext) == ext # NoMarker

\* after(&self, _, r): resp.extensions.get::<HandlebarsEngine>(); with no
\* marker the closure never runs and the match returns Ok(resp).
AfterEnter(p, r) ==
  /\ pc[p] = "idle"
  /\ resp' = [resp EXCEPT ![p] = r]
  /\ IF ~AndThenRuns(r.ext)
       THEN /\ out' = [out EXCEPT ![p] = Match(r, NoPage)]
            /\ pc' = [pc EXCEPT ![p] = "a_ret"]
       ELSE /\ out' = out
            /\ pc' = [pc EXCEPT ![p] = "a_wait"]
  /\ UNCHANGED <<engineVars, reloadVars>>

\* Responses the handlers of the served application return.
ServedResponses ==
  { Response_new,
    Modify(Template_new("index", CHOOSE v \in RawValues : v.kind = "map"), Response_new),
    Modify(Template_new("about", CHOOSE v \in RawValues : v.kind = "str"),
           [Response_new EXCEPT !.ctype = "json"]) }

AfterCall(p) ==
  /\ \E r \in ServedResponses : AfterEnter(p, r)
  /\ UNCHANGED <<handlerVars, lockVars>>

\* let hbs = self.registry.read().unwrap();
AfterAcquire(p) ==
  /\ pc[p] = "a_wait"
  /\ CanRead(writers, readers)
  /\ ~UnwrapPanics(poisoned)
  /\ readers' = readers \cup {p}
  /\ pc' = [pc EXCEPT ![p] = "a_render"]
  /\ UNCHANGED <<sources, registry, writers, last, reloadVars, afterVars, handlerVars>>

AfterLock(p) ==
  /\ AfterAcquire(p)
  /\ UNCHANGED lockVars

\* hbs.render takes the Handlebars by shared reference: the registry after it.
EngineAfterRenderCaches(reg, name) == [reg EXCEPT ![name] = "Tcached"]

EngineAfterRender(reg, name) == reg

\* Some(hbs.render(&h.name, &h.value)), the read guard dropped at the end
\* of the closure, then the match on the result.
AfterRender(p) ==
  /\ pc[p] = "a_render"
  /\ readers' = DropGuard(readers, p)
  /\ registry' = EngineAfterRender(registry, resp[p].ext.name)
  /\ out' = [out EXCEPT ![p] =
               Match(resp[p], SomePage(Render(registry, resp[p].ext.name, resp[p].ext.value)))]
  /\ pc' = [pc EXCEPT ![p] = "a_ret"]
  /\ UNCHANGED <<sources, writers, last, reloadVars, resp, handlerVars, lockVars>>

\* The pipeline takes after()'s result.
AfterDone(p) ==
  /\ pc[p] = "a_ret"
  /\ pc' = [pc EXCEPT ![p] = "idle"]
  /\ resp' = [resp EXCEPT ![p] = Response_new]
  /\ out' = [out EXCEPT ![p] = NoOut]
  /\ UNCHANGED <<engineVars, reloadVars, handlerVars, lockVars>>

\* ------------------------------------------------------------ handler
\* A handler (or a test, as test_resp_set) makes a response ...
HandlerNew ==
  /\ pc[1] = "idle"
  /\ \E r \in HandlerResponses : hresp' = r
  /\ hown' = TRUE
  /\ hargs' = NoArgs
  /\ hext' = NoExt
  /\ nattach' = 0
  /\ nextract' = 0
  /\ UNCHANGED <<engineVars, pc, reloadVars, afterVars, lockVars>>

\* ... attaches a marker: resp.set(Template::new(name, value)) ...
HandlerAttach ==
  /\ hown
  /\ nattach < MaxAttach
  /\ \E n \in MarkerNames, v \in RawValues :
        /\ hresp' = Modify(Template_new(n, v), hresp)
        /\ hargs' = [name |-> n, raw |-> v]
  /\ nattach' = nattach + 1
  /\ UNCHANGED <<engineVars, pc, reloadVars, afterVars, hext, hown, nextract, lockVars>>

\* ... reads it back: resp.get::<HandlebarsEngine>() ...
HandlerExtract ==
  /\ hown
  /\ nextract < MaxExtract
  /\ LET e == Eval(hresp)
     IN /\ hresp' = e.resp
        /\ hext' = [ok |-> e.res.ok, t |-> e.res.t, at |-> nattach]
  /\ nextract' = nextract + 1
  /\ UNCHANGED <<engineVars, pc, reloadVars, afterVars, hargs, hown, nattach, lockVars>>

\* ... and returns it; the chain passes it to after().
HandlerReturn ==
  /\ hown
  /\ AfterEnter(1, hresp)
  /\ hown' = FALSE
  /\ UNCHANGED <<hresp, hargs, hext, nattach, nextract, lockVars>>

\* ------------------------------------------------------------ faults
\* Sources whose load panics, or never comes back, beside one that loads
\* and one that fails.
SrcPanic == [tpls |-> EmptyRegistry, outcome |-> "panic", err |-> Absent]
SrcHang  == [tpls |-> EmptyRegistry, outcome |-> "hang", err |-> Absent]

FaultKinds == {SrcIndex, SrcErr1, SrcPanic, SrcHang}

\* s.load(&mut hbs) panics: reload() unwinds, the write guard is dropped
\* while panicking and the RwLock is poisoned.
ReloadLoadPanic(p) ==
  /\ pc[p] = "r_load"
  /\ IterNext(sources, invoked[p]) # 0
  /\ sources[IterNext(sources, invoked[p])].outcome = "panic"
  /\ invoked' = [invoked EXCEPT ![p] = Append(@, IterNext(sources, invoked[p]))]
  /\ writers' = DropGuard(writers, p)
  /\ poisoned' = TRUE
  /\ pc' = [pc EXCEPT ![p] = "panicked"]
  /\ UNCHANGED <<sources, registry, readers, last, rres, afterVars, handlerVars, queue>>

\* self.registry.write().unwrap() on a poisoned lock: the lock is taken, the
\* result is Err(PoisonError), unwrap panics and the guard in it is dropped.
ReloadLockPanic(p) ==
  /\ pc[p] = "r_wait"
  /\ CanWrite(writers, readers)
  /\ UnwrapPanics(poisoned)
  /\ pc' = [pc EXCEPT ![p] = "panicked"]
  /\ UNCHANGED <<engineVars, reloadVars, afterVars, handlerVars, lockVars>>

\* self.registry.read().unwrap() on a poisoned lock.
AfterLockPanic(p) ==
  /\ pc[p] = "a_wait"
  /\ CanRead(writers, readers)
  /\ UnwrapPanics(poisoned)
  /\ pc' = [pc EXCEPT ![p] = "panicked"]
  /\ UNCHANGED <<engineVars, reloadVars, afterVars, handlerVars, lockVars>>

\* The panic has unwound out of the call; the thread's place is taken by
\* the server's next worker.
Unwound(p) ==
  /\ pc[p] = "panicked"
  /\ pc' = [pc EXCEPT ![p] = "idle"]
  /\ invoked' = [invoked EXCEPT ![p] = <<>>]
  /\ resp' = [resp EXCEPT ![p] = Response_new]
  /\ UNCHANGED <<engineVars, rres, out, handlerVars, lockVars>>

\* ------------------------------------------------------------ specifications
\* The engine shared by MaxProcs threads that reload and render.
Serve ==
  \/ \E p \in Procs : ReloadCall(p)
  \/ \E p \in Procs : ReloadLockClear(p)
  \/ \E p \in Procs : ReloadLoad(p)
  \/ \E p \in Procs : ReloadOkReturn(p)
  \/ \E p \in Procs : ReloadDone(p)
  \/ \E p \in Procs : AfterCall(p)
  \/ \E p \in Procs : AfterLock(p)
  \/ \E p \in Procs : AfterRender(p)
  \/ \E p \in Procs : AfterDone(p)

Next ==
  \/ \E s \in SourceKinds : add(s)
  \/ Serve

Spec == Init /\ [][Next]_vars

\* One request at a time: a handler builds a response, the chain renders it.
NextResp ==
  \/ HandlerNew
  \/ HandlerAttach
  \/ HandlerExtract
  \/ HandlerReturn
  \/ AfterLock(1)
  \/ AfterRender(1)
  \/ AfterDone(1)

SpecResp == Init /\ [][NextResp]_vars

\* The shared engine with sources that may also panic or hang.
NextFault ==
  \/ \E s \in FaultKinds : add(s)
  \/ Serve
  \/ \E p \in Procs : ReloadLoadPanic(p)
  \/ \E p \in Procs : ReloadLockPanic(p)
  \/ \E p \in Procs : AfterLockPanic(p)
  \/ \E p \in Procs : Unwound(p)

SpecFault == Init /\ [][NextFault]_vars

\* ------------------------------------------------------------ fair lock
\* The engine as an application sets it up before serving: new2(), then the
\* first sources of a fixed list added.
LiveSources == <<SrcIndex, SrcErr1, SrcSite>>

InitLive ==
  /\ \E k \in 0..MaxSources :
        /\ k <= Len(LiveSources)
        /\ sources = SubSeq(LiveSources, 1, k)
  /\ registry = new2.registry
  /\ last = [n |-> 0, reg |-> new2.registry, res |-> NoResult]
  /\ writers = {}
  /\ readers = {}
  /\ pc = [p \in Procs |-> "idle"]
  /\ invoked = [p \in Procs |-> <<>>]
  /\ rres = [p \in Procs |-> NoResult]
  /\ resp = [p \in Procs |-> Response_new]
  /\ out = [p \in Procs |-> NoOut]
  /\ hresp = Response_new
  /\ hargs = NoArgs
  /\ hext = NoExt
  /\ hown = FALSE
  /\ nattach = 0
  /\ nextract = 0
  /\ poisoned = FALSE
  /\ queue = <<>>

\* An RwLock that grants its requests in the order they were made: a thread
\* joins the queue when it asks for the lock and is served at its head.
FairReloadCall(p) ==
  /\ ReloadEnter(p)
  /\ queue' = Append(queue, p)
  /\ UNCHANGED poisoned

FairReloadLockClear(p) ==
  /\ queue # <<>> /\ Head(queue) = p
  /\ ReloadAcquire(p)
  /\ queue' = Tail(queue)
  /\ UNCHANGED poisoned

FairAfterCall(p) ==
  /\ \E r \in ServedResponses :
        /\ AfterEnter(p, r)
        /\ queue' = IF AndThenRuns(r.ext) THEN Append(queue, p) ELSE queue
  /\ UNCHANGED <<handlerVars, poisoned>>

FairAfterLock(p) ==
  /\ queue # <<>> /\ Head(queue) = p
  /\ AfterAcquire(p)
  /\ queue' = Tail(queue)
  /\ UNCHANGED poisoned

NextLive ==
  \/ \E p \in Procs : FairReloadCall(p)
  \/ \E p \in Procs : FairReloadLockClear(p)
  \/ \E p \in Procs : ReloadLoad(p)
  \/ \E p \in Procs : ReloadOkReturn(p)
  \/ \E p \in Procs : ReloadDone(p)
  \/ \E p \in Procs : FairAfterCall(p)
  \/ \E p \in Procs : FairAfterLock(p)
  \/ \E p \in Procs : AfterRender(p)
  \/ \E p \in Procs : AfterDone(p)

\* The lock serves the head of its queue, every load and every render
\* returns, and a thread that can go on inside reload() or after() does.
FairLive ==
  \A p \in Procs :
    /\ WF_vars(FairReloadLockClear(p))
    /\ WF_vars(ReloadLoad(p))
    /\ WF_vars(ReloadOkReturn(p))
    /\ WF_vars(FairAfterLock(p))
    /\ WF_vars(AfterRender(p))

SpecLive == InitLive /\ [][NextLive]_vars /\ FairLive

\* ------------------------------------------------------------ properties

\* C1: whenever a render is inside the read-locked section of after(), the
\* registry it evaluates against is the complete template set left by the
\* latest finished reload (or by construction): the set before a concurrent
\* reload cleared anything or the set after it returned, never the cleared
\* set and never the partial set of a reload still running.
ThmC1 ==
  \A p \in Procs : pc[p] = "a_render" => registry = last.reg

\* A render is in its read section while another thread's reload waits for
\* the lock, with templates loaded that the reload will replace.
WitC1 ==
  \E p, q \in Procs :
    /\ pc[p] = "a_render" /\ pc[q] = "r_wait"
    /\ registry = Reg1("index", "T0")
    /\ Len(sources) = 2 /\ sources[1] = SrcSite

\* C2: with sources [S1, S2], S1 succeeding and S2 failing, a returned
\* reload() has the value S2's error, and the registry it leaves holds
\* exactly the templates of S1: nothing loaded earlier, nothing of S2.
ThmC2 ==
  \A p \in Procs :
    (/\ pc[p] = "r_ret"
     /\ Len(sources) = 2
     /\ sources[1].outcome = "ok"
     /\ sources[2].outcome = "err")
    => /\ rres[p] = [ok |-> FALSE, err |-> sources[2].err]
       /\ writers = {} => /\ registry = sources[1].tpls
                          /\ last.reg = sources[1].tpls

\* reload() of [SrcIndex, SrcErr2] has returned on an engine built by from2
\* with an "about" template, which is gone.
WitC2 ==
  \E p \in Procs :
    /\ pc[p] = "r_ret" /\ writers = {}
    /\ sources = <<SrcIndex, SrcErr2>>
    /\ rres[p].err = "E2"
    /\ registry["index"] = "T1" /\ registry["about"] = Absent
    /\ last.n = 1

\* The registry after loading the sources with indices 1..k onto an empty one.
RECURSIVE LoadedUpTo(_, _)
LoadedUpTo(srcs, k) ==
  IF k = 0 THEN [n \in MarkerNames |-> Absent]
  ELSE LET before == LoadedUpTo(srcs, k - 1)
       IN IF srcs[k].outcome = "ok"
            THEN [n \in MarkerNames |->
                    IF srcs[k].tpls[n] # Absent THEN srcs[k].tpls[n] ELSE before[n]]
            ELSE before

FirstFailing(srcs) ==
  LET F == { i \in 1..Len(srcs) : srcs[i].outcome # "ok" }
  IN IF F = {} THEN 0 ELSE CHOOSE i \in F : \A j \in F : i <= j

\* C3: a reload() holds an engine that was cleared and then loaded by the
\* sources 1, 2, .. in registration order, each once; while it runs none of
\* the sources invoked so far has failed; when it has returned it has invoked
\* exactly 1..k and returns Sk's error, Sk being the first failing source, or
\* has invoked all n and returns Ok when none fails.
ThmC3 ==
  \A p \in Procs :
    LET inv == invoked[p]
        k == FirstFailing(sources)
    IN /\ pc[p] \in {"r_load", "r_ret"} => inv = [i \in 1..Len(inv) |-> i]
       /\ pc[p] = "r_load" =>
            /\ \A i \in 1..Len(inv) : sources[i].outcome = "ok"
            /\ registry = LoadedUpTo(sources, Len(inv))
       /\ pc[p] = "r_ret" =>
            IF k = 0
              THEN Len(inv) = Len(sources) /\ rres[p] = [ok |-> TRUE, err |-> Absent]
              ELSE Len(inv) = k /\ rres[p] = [ok |-> FALSE, err |-> sources[k].err]

\* reload() of [SrcErr1, SrcErr2] has returned E1 having invoked the first
\* source only.
WitC3 ==
  \E p \in Procs :
    /\ pc[p] = "r_ret"
    /\ sources = <<SrcErr1, SrcErr2>>
    /\ invoked[p] = <<1>>
    /\ rres[p] = [ok |-> FALSE, err |-> "E1"]

ThmC5 ==
  \A p \in Procs :
    LET r == resp[p]
        t == registry[r.ext.name]
    IN (pc[p] = "a_ret" /\ r.ext # NoMarker /\ t \in {Absent, "Tbad"}) =>
         /\ ~out[p].ok
         /\ out[p].cause = (IF t = Absent THEN "TemplateNotFound" ELSE "RenderFailed")
         /\ out[p].resp.status = "500"
         /\ out[p].resp.body.kind = Absent
         /\ out[p].resp.ctype = Absent
         /\ out[p].resp.xhdr = Absent
         /\ out[p].resp.ext = NoMarker

\* A response with a body and the marker "missing" ended as an error.
WitC5 ==
  /\ pc[1] = "a_ret"
  /\ resp[1].ext.name = "missing"
  /\ resp[1].body.kind = "raw"
  /\ ~out[1].ok /\ out[1].cause = "TemplateNotFound" /\ out[1].resp.status = "500"

\* C6: when after() is given a response with no marker, it returns Ok with
\* that response as it was.
ThmC6 ==
  \A p \in Procs :
    (pc[p] = "a_ret" /\ resp[p].ext = NoMarker) =>
      /\ out[p].ok
      /\ out[p].resp = resp[p]

\* A response with no marker and no content-type was passed through.
WitC6 ==
  /\ pc[1] = "a_ret"
  /\ resp[1].ext = NoMarker
  /\ resp[1].ctype = Absent /\ resp[1].xhdr = "x" /\ resp[1].body.kind = "raw"
  /\ out[1].ok /\ out[1].resp.ctype = Absent

\* C7: an extraction made after the handler's last attach returns Ok with a
\* marker of the attached name and of the attached value's JSON form (for a
\* map, the entry reads back as the string put in); an extraction from a
\* response no marker was attached to returns the error.
ThmC7 ==
  (nextract > 0 /\ hext.at = nattach) =>
    IF nattach > 0
      THEN /\ hext.ok
           /\ hext.t.name = hargs.name
           /\ hext.t.value = ToJson(hargs.raw)
           /\ hext.t.value.str = hargs.raw.val
           /\ hargs.raw.kind = "map" =>
                AsObjectGetString(hext.t.value, hargs.raw.key) = hargs.raw.val
      ELSE ~hext.ok

\* test_resp_set: the marker ("index", {title: Hi}) was attached and read back.
WitC7 ==
  /\ nextract > 0 /\ nattach = 1 /\ hext.at = 1
  /\ hargs.name = "index" /\ hargs.raw.kind = "map"
  /\ hext.ok /\ hext.t.name = "index"
  /\ AsObjectGetString(hext.t.value, "title") = "Hi"

\* What the handler's attaches alone leave in the extension slot.
Attached == IF nattach > 0 THEN [name |-> hargs.name, value |-> ToJson(hargs.raw)] ELSE NoMarker

\* C8: an extraction leaves the response as it was and returns the marker
\* attached (or the error, when none is); a further extraction returns the
\* same value; and a response that was extracted from reaches after() with
\* the marker still attached and is rendered from that marker.
ThmC8 ==
  /\ [][nextract' = nextract + 1 =>
          /\ hresp' = hresp
          /\ hext'.ok = (hresp.ext # NoMarker)
          /\ hext'.t = hresp.ext
          /\ (nextract > 0 /\ hext.at = nattach) => (hext'.ok = hext.ok /\ hext'.t = hext.t)]_vars
  /\ [](nextract > 0 => /\ hresp.ext = Attached
                        /\ pc[1] = "a_ret" =>
                             /\ resp[1] = hresp
                             /\ nattach = 0 => out[1].resp = hresp
                             /\ (nattach > 0 /\ out[1].ok) =>
                                  /\ out[1].resp.body.kind = "page"
                                  /\ out[1].resp.body.tpl = registry[hargs.name]
                                  /\ out[1].resp.body.data = ToJson(hargs.raw)
                             /\ (nattach > 0 /\ ~out[1].ok) =>
                                  registry[hargs.name] \in {Absent, "Tbad"})

\* A response was extracted from twice and then rendered from its marker.
WitC8 ==
  /\ pc[1] = "a_ret"
  /\ nextract = 2 /\ nattach > 0
  /\ out[1].ok /\ out[1].resp.body.kind = "page"

\* C9: a reload() that returns after another reload() has returned, with no
\* add() in between, returns the same result and leaves the same registry
\* as that one, so every (name, data) renders to the same output.
ThmC9 ==
  [][\A p \in Procs :
       (pc[p] = "r_load" /\ pc'[p] = "r_ret" /\ last.n > 0) =>
         /\ rres'[p] = last.res
         /\ registry' = last.reg
         /\ \A m \in Markers :
              Render(registry', m.name, m.value) = Render(last.reg, m.name, m.value)]_vars

\* A second reload() of [SrcSite, SrcErr1] has returned, on an engine that
\* from2 built with other templates.
WitC9 ==
  \E p \in Procs :
    /\ pc[p] = "r_ret"
    /\ last.n = 2
    /\ sources = <<SrcSite, SrcErr1>>
    /\ rres[p] = [ok |-> FALSE, err |-> "E1"]
    /\ registry = SrcSite.tpls

\* C10: at most one thread holds the write guard, and none holds a read
\* guard while one does; the holders are the reloads past their clear and
\* the renders inside their read section; a render waiting for the lock can
\* take it whenever no reload holds it, whatever other renders hold, and a
\* reload waiting for it can take it only when nobody holds it.
ThmC10 ==
  /\ Cardinality(writers) <= 1
  /\ writers # {} => readers = {}
  /\ writers = { p \in Procs : pc[p] = "r_load" }
  /\ readers = { p \in Procs : pc[p] = "a_render" }
  /\ \A p \in Procs :
       /\ pc[p] = "a_wait" => ((ENABLED AfterLock(p)) <=> writers = {})
       /\ pc[p] = "r_wait" => ((ENABLED ReloadLockClear(p)) <=> (writers = {} /\ readers = {}))

\* Two renders are inside their read sections at the same time.
WitC10 ==
  \E p, q \in Procs :
    /\ p # q
    /\ pc[p] = "a_render" /\ pc[q] = "a_render"
    /\ readers = {p, q}

\* The registry a whole reload() of srcs leaves.
ReloadResult(srcs) ==
  LoadedUpTo(srcs, IF FirstFailing(srcs) = 0 THEN Len(srcs) ELSE FirstFailing(srcs))

\* C11 as stated: the template set is what the last finished reload (or the
\* construction) left or, while a reload is in progress, the empty set. A
\* reload that a panic ended is read as one that never finished.
OrigC11 ==
  \/ registry = last.reg
  \/ (writers # {} \/ poisoned) /\ registry = EmptyRegistry

\* C11, amended: the template set is what the last finished reload (before
\* any reload, the construction) left; or, while a reload holds the write
\* guard, the cleared engine loaded by the sources that reload has invoked so
\* far; or, once a source has panicked in a reload, the cleared engine loaded
\* by the sources before that one.
ThmC11 ==
  /\ last.n > 0 => last.reg = ReloadResult(sources)
  /\ IF writers # {}
       THEN \A p \in writers : registry = LoadedUpTo(sources, Len(invoked[p]))
       ELSE IF poisoned
         THEN /\ FirstFailing(sources) # 0
              /\ sources[FirstFailing(sources)].outcome = "panic"
              /\ registry = LoadedUpTo(sources, FirstFailing(sources))
         ELSE registry = last.reg

\* A reload is in progress with one of its two sources loaded: the set is
\* neither empty nor what the engine held before.
WitC11 ==
  \E p \in Procs :
    /\ pc[p] = "r_load"
    /\ sources = <<SrcIndex, SrcErr1>>
    /\ invoked[p] = <<1>>
    /\ registry = SrcIndex.tpls
    /\ last.reg = Reg1("index", "T0")

\* The steps of after() for thread p, as the per-response state machine:
\* NoMarker -> PassThrough in the entry step; Marker -> Rendering when the
\* read lock is taken; Rendering -> Rendered or Failed in the one step that
\* calls the engine; a terminal state stays as it is until the call is over.
StagesOf(p) ==
  /\ (pc[p] = "idle" /\ pc'[p] # "idle") =>
        \/ pc'[p] = "r_wait"
        \/ /\ resp'[p].ext = NoMarker
           /\ pc'[p] = "a_ret" /\ out'[p].ok /\ out'[p].resp = resp'[p]
        \/ /\ resp'[p].ext # NoMarker
           /\ pc'[p] = "a_wait" /\ out'[p] = out[p]
  /\ pc'[p] = "a_render" =>
        /\ pc[p] \in {"a_wait", "a_render"}
        /\ resp[p].ext # NoMarker
  /\ pc[p] \in {"a_wait", "a_render"} => (resp'[p] = resp[p] \/ pc'[p] = "idle")
  /\ (pc[p] = "a_render" /\ pc'[p] # "a_render") =>
        /\ pc'[p] = "a_ret"
        /\ LET t == registry[resp[p].ext.name]
           IN IF t \notin {Absent, "Tbad"}
                THEN out'[p].ok /\ out'[p].resp.body.kind = "page"
                ELSE ~out'[p].ok /\ out'[p].resp.status = "500"
  /\ (pc'[p] = "a_ret" /\ pc[p] # "a_ret") => pc[p] \in {"idle", "a_render"}
  /\ pc[p] = "a_ret" =>
        \/ pc'[p] = "a_ret" /\ out'[p] = out[p] /\ resp'[p] = resp[p]
        \/ pc'[p] = "idle"

\* C12 as stated: a response with a marker that waits for the engine goes on
\* to Rendering, and nowhere else.
OrigC12 ==
  [][\A p \in Procs :
       /\ StagesOf(p)
       /\ pc[p] = "a_wait" => pc'[p] \in {"a_wait", "a_render"}]_vars

\* C12, amended: each response follows one path of the state machine and
\* its terminal state is not left; the engine renders once for a response
\* with a marker, never for one without; but when the lock is poisoned a
\* response with a marker leaves Marker by a panic, without rendering and
\* without a result.
ThmC12 ==
  [][\A p \in Procs :
       /\ StagesOf(p)
       /\ pc[p] = "a_wait" =>
            \/ pc'[p] \in {"a_wait", "a_render"} /\ (pc'[p] = "a_render" => ~poisoned)
            \/ pc'[p] = "panicked" /\ poisoned /\ out'[p] = NoOut]_vars

\* after() has panicked on a response with a marker, having rendered nothing.
WitC12 ==
  \E p \in Procs :
    /\ pc[p] = "panicked"
    /\ resp[p].ext # NoMarker
    /\ out[p] = NoOut
    /\ poisoned

\* Thread p takes a step of after(): entry, lock, render and match, return.
AfterStepOf(p) ==
  \/ pc[p] = "idle" /\ pc'[p] \in {"a_wait", "a_ret"}
  \/ pc[p] \in {"a_wait", "a_render"} /\ pc'[p] # pc[p]
  \/ pc[p] = "a_ret" /\ pc'[p] = "idle"

\* C13: no step of after(), for a response without a marker, with one that
\* renders or with one that fails, changes the registry's templates or the
\* source list; the templates change only in a step of a reload() that holds
\* or takes the write guard, the source list only by add() appending to it.
ThmC13 ==
  [][/\ \A p \in Procs : AfterStepOf(p) => (registry' = registry /\ sources' = sources)
     /\ registry' # registry =>
          \E p \in Procs : /\ pc[p] \in {"r_wait", "r_load"}
                           /\ pc'[p] \in {"r_load", "r_ret"}
                           /\ p \in writers \cup writers'
     /\ sources' # sources =>
          /\ \A p \in Procs : pc[p] = "idle" /\ pc'[p] = "idle"
          /\ Len(sources') = Len(sources) + 1
          /\ SubSeq(sources', 1, Len(sources)) = sources
          /\ registry' = registry]_vars

\* after() has returned an error for a marker whose template is not loaded,
\* with the source and the template a reload loaded still in place.
WitC13 ==
  \E p \in Procs :
    /\ pc[p] = "a_ret"
    /\ resp[p].ext.name = "about"
    /\ ~out[p].ok
    /\ sources = <<SrcIndex>>
    /\ registry = SrcIndex.tpls

\* Thread p is inside reload(), in the load of a source that never returns.
Hung(p) ==
  /\ pc[p] = "r_load"
  /\ IterNext(sources, invoked[p]) # 0
  /\ sources[IterNext(sources, invoked[p])].outcome = "hang"

\* C14: once a reload() is in the load of a source that never returns, every
\* later step leaves it there: it has no result, it still holds the write
\* guard and the source list is the same; no render is in its read section,
\* and a thread in after() with a marker that waits for the lock keeps
\* waiting, without a response and without an error, while no thread enters
\* the read section.
ThmC14 ==
  [][\A p \in Procs : Hung(p) =>
       /\ writers = {p} /\ readers = {}
       /\ pc'[p] = "r_load" /\ invoked'[p] = invoked[p] /\ sources' = sources
       /\ rres'[p] = NoResult
       /\ writers' = {p} /\ readers' = {}
       /\ \A q \in Procs :
            /\ pc[q] # "a_render" /\ pc'[q] # "a_render"
            /\ pc[q] = "a_wait" => (pc'[q] = "a_wait" /\ out'[q] = NoOut)
            /\ (pc'[q] = "a_ret" /\ pc[q] # "a_ret") => resp'[q].ext = NoMarker]_vars

\* A reload hangs in its second source while another thread's after() waits
\* for the read lock with a marker.
WitC14 ==
  \E p, q \in Procs :
    /\ Hung(p) /\ invoked[p] = <<1>>
    /\ pc[q] = "a_wait" /\ resp[q].ext # NoMarker /\ out[q] = NoOut

\* C15: of the threads in reload() at most one is between its clear and its
\* return, and the registry it works on holds exactly the loads of its own run
\* so far; once two calls have both returned and no reload holds the lock,
\* the registry is what one reload of the sources produces and both calls
\* return the same value.
ThmC15 ==
  /\ \A p, q \in Procs : (p # q /\ pc[p] = "r_load") => pc[q] # "r_load"
  /\ \A p \in Procs :
       pc[p] = "r_load" => /\ writers = {p}
                           /\ registry = LoadedUpTo(sources, Len(invoked[p]))
  /\ \A p, q \in Procs :
       (p # q /\ pc[p] = "r_ret" /\ pc[q] = "r_ret" /\ writers = {})
       => /\ registry = ReloadResult(sources)
          /\ rres[p] = rres[q]

\* Two concurrent reload() calls of two loading sources have both returned.
WitC15 ==
  \E p, q \in Procs :
    /\ p # q /\ pc[p] = "r_ret" /\ pc[q] = "r_ret"
    /\ sources = <<SrcIndex, SrcSite>>
    /\ last.n = 2
    /\ registry = Override(SrcIndex.tpls, SrcSite.tpls)

\* C16: when a reload() has returned an error, it holds the write guard no
\* longer: a waiting after() can take the read lock and a waiting reload()
\* the write lock as soon as no other thread holds it, a render in its read
\* section evaluates against the templates of the sources before the failing
\* one, and a reload() that has just taken the lock works on an empty registry.
ThmC16 ==
  \A p \in Procs :
    (pc[p] = "r_ret" /\ ~rres[p].ok) =>
      /\ p \notin writers
      /\ rres[p].err = sources[FirstFailing(sources)].err
      /\ \A q \in Procs :
           /\ (pc[q] = "a_wait" /\ writers = {}) => ENABLED AfterLock(q)
           /\ (pc[q] = "r_wait" /\ writers = {} /\ readers = {}) => ENABLED ReloadLockClear(q)
           /\ pc[q] = "a_render" =>
                registry = LoadedUpTo(sources, FirstFailing(sources))
           /\ (pc[q] = "r_load" /\ invoked[q] = <<>>) =>
                (writers = {q} /\ registry = EmptyRegistry)

\* After a reload() of [SrcIndex, SrcErr1] returned E1, another thread
\* renders "index" in its read section.
WitC16 ==
  \E p, q \in Procs :
    /\ pc[p] = "r_ret" /\ rres[p] = ReloadErr("E1")
    /\ sources = <<SrcIndex, SrcErr1>>
    /\ pc[q] = "a_render" /\ resp[q].ext.name = "index"
    /\ registry = SrcIndex.tpls

\* after() on the response without a marker, from call to result in one step.
PassThrough(p) ==
  /\ AfterEnter(p, Response_new)
  /\ pc'[p] = "a_ret"
  /\ out'[p] = IronOk(Response_new)
  /\ UNCHANGED <<handlerVars, lockVars>>

\* C17: only a thread whose response carries a marker waits for the read lock
\* or holds it; a thread that is not in a call can always run after() on a
\* response without a marker straight to its result, whoever holds the lock
\* and also while a reload hangs in a source with the write guard.
ThmC17 ==
  \A p \in Procs :
    /\ pc[p] \in {"a_wait", "a_render"} => resp[p].ext # NoMarker
    /\ p \in readers => (pc[p] = "a_render" /\ resp[p].ext # NoMarker)
    /\ pc[p] = "idle" => ENABLED PassThrough(p)
    /\ (pc[p] = "a_ret" /\ resp[p].ext = NoMarker) => out[p] = IronOk(resp[p])

\* A response without a marker has been passed through while another
\* thread's reload hangs in a source, holding the write guard.
WitC17 ==
  \E p, q \in Procs :
    /\ Hung(q) /\ writers = {q}
    /\ pc[p] = "a_ret" /\ resp[p].ext = NoMarker /\ out[p] = IronOk(resp[p])

\* C18: the lock is poisoned only by the step in which the load of a source
\* panics under the write guard, and a poisoned lock stays poisoned. While it
\* is poisoned no thread holds or takes the lock and the registry stays as
\* it is; a reload() or an after() with a marker that waits for the lock can
\* panic and can do nothing else, so it has no result, no render and no
\* pipeline error; after() on a response without a marker still runs to its
\* Ok(resp).
ThmC18 ==
  [][/\ poisoned => poisoned'
     /\ (~poisoned /\ poisoned') =>
          \E p \in Procs :
            /\ pc[p] = "r_load" /\ p \in writers
            /\ sources[IterNext(sources, invoked[p])].outcome = "panic"
            /\ pc'[p] = "panicked" /\ writers' = {}
     /\ poisoned =>
          /\ writers = {} /\ readers = {}
          /\ writers' = {} /\ readers' = {}
          /\ registry' = registry
          /\ \A p \in Procs :
               /\ pc[p] \notin {"r_load", "a_render"}
               /\ pc'[p] \notin {"r_load", "a_render"}
               /\ pc[p] = "r_wait" => /\ ENABLED ReloadLockPanic(p)
                                      /\ pc'[p] \in {"r_wait", "panicked"}
                                      /\ rres'[p] = NoResult
               /\ pc[p] = "a_wait" => /\ ENABLED AfterLockPanic(p)
                                      /\ pc'[p] \in {"a_wait", "panicked"}
                                      /\ out'[p] = NoOut
               /\ pc[p] = "idle" => ENABLED PassThrough(p)]_vars

\* On a poisoned lock one thread's after() with a marker has panicked and
\* another's, without a marker, has passed its response through.
WitC18 ==
  \E p, q \in Procs :
    /\ poisoned
    /\ pc[p] = "panicked" /\ resp[p].ext.name = "index" /\ out[p] = NoOut
    /\ pc[q] = "a_ret" /\ resp[q].ext = NoMarker /\ out[q] = IronOk(resp[q])

\* C19: the response has one marker slot: each attach puts its marker there
\* in place of what was there and changes nothing else of the response, so
\* after any number of attaches the slot holds the marker attached last, an
\* extraction made since returns that marker, and after() is given, and
\* renders from, the name and data of that marker alone.
ThmC19 ==
  /\ [][nattach' = nattach + 1 =>
          hresp' = [hresp EXCEPT !.ext = Template_new(hargs'.name, hargs'.raw)]]_vars
  /\ [](/\ hresp.ext = Attached
        /\ (nextract > 0 /\ hext.at = nattach) => hext.t = Attached
        /\ pc[1] \in {"a_wait", "a_render", "a_ret"} => resp[1].ext = Attached
        /\ (pc[1] = "a_ret" /\ nattach > 0) =>
             IF out[1].ok
               THEN /\ out[1].resp.body.kind = "page"
                    /\ out[1].resp.body.tpl = registry[hargs.name]
                    /\ out[1].resp.body.data = ToJson(hargs.raw)
               ELSE registry[hargs.name] \in {Absent, "Tbad"})

\* A marker "missing" was attached and read back, a marker "index" with
\* other data was attached over it, and after() rendered "index".
WitC19 ==
  /\ nattach = 2
  /\ hext.ok /\ hext.at = 1 /\ hext.t.name = "missing"
  /\ hargs.name = "index" /\ ToJson(hargs.raw) # hext.t.value
  /\ pc[1] = "a_ret" /\ out[1].ok
  /\ out[1].resp.body.tpl = "T0"
  /\ out[1].resp.body.data = ToJson(hargs.raw)

\* C20: with the fair lock, returning loads and returning renders, a thread
\* inside reload() comes to its return, with Ok or with the error of the
\* first failing source, and a thread inside after() comes to its return,
\* with a response or a pipeline error, whatever the other threads do.
ThmC20 ==
  \A p \in Procs :
    /\ (pc[p] \in {"r_wait", "r_load"}) ~>
         (/\ pc[p] = "r_ret"
          /\ rres[p] = IF FirstFailing(sources) = 0 THEN ReloadOk
                       ELSE ReloadErr(sources[FirstFailing(sources)].err))
    /\ (pc[p] \in {"a_wait", "a_render"}) ~> (pc[p] = "a_ret" /\ out[p] # NoOut)

\* A reload() holds the write lock in its loop while an after() with a
\* marker waits in the lock's queue.
WitC20 ==
  \E p, q \in Procs :
    /\ pc[p] = "r_load" /\ writers = {p} /\ invoked[p] = <<1>>
    /\ pc[q] = "a_wait" /\ queue = <<q>>

====
